---- MODULE Spec2Model ----
(***************************************************************************)
(* A model of notugly, a Wadler-style pretty printer.                      *)
(*                                                                         *)
(*   src/src/format.rs : FormatDesc, flatten_with, flatten, best, pretty,  *)
(*                       ProcessedFormat, Display::fmt, fits, be, better   *)
(*   src/src/lib.rs    : Document, Format::pretty, the combinators         *)
(*                                                                         *)
(* A FormatDesc is a record with a tag; a ProcessedFormat (a linked chain  *)
(* of Text and Line cells closed by Nil) is the sequence of its cells.     *)
(* `be` is strict Rust: it is modelled as the machine that runs it, one    *)
(* match arm per action, with the frames of its pending calls on `frames`.  *)
(***************************************************************************)
EXTENDS Integers, Sequences, FiniteSets, TLC

VARIABLES
    doc,      \* the Document the caller owns; every resolution clones it
    meta,     \* how doc was built (the combinator and its arguments)
    width,    \* w of the resolution in progress
    pc,       \* "idle" | "call" (be entered) | "ret" (be returned) | "fmt" | "shown"
              \* | "fits" | "panicked"
    k,        \* be's k: the column of the invocation in progress
    z,        \* be's z: the work queue of the invocation in progress
    frames,   \* frames of the be invocations waiting for a callee
    ret,      \* the ProcessedFormat the last be invocation returned
    result,   \* the ProcessedFormat pretty returned
    rest,     \* what Display::fmt has still to write
    out,      \* the text written so far
    outcol,   \* characters written on the current output line
    rendered, \* cells Display::fmt has written
    decided,  \* calls of better made by the resolution in progress
    todo,     \* the widths the caller has still to resolve doc at
    history   \* width -> the <<cells, text>> results seen for it

vars == <<doc, meta, width, pc, k, z, frames, ret, result, rest, out, outcol,
          rendered, decided, todo, history>>

(***************************************************************************)
(* Bounds of the model.                                                    *)
(***************************************************************************)
MaxWidth == 7
MaxRuns == 3
MaxItems == 3
MaxTokens == 3

Widths == -1 .. MaxWidth

(***************************************************************************)
(* i32 arithmetic, wrapping as a release build does (overflow checks are   *)
(* off).  The sums are arranged so that no intermediate value leaves the   *)
(* 32-bit range.                                                           *)
(***************************************************************************)
I32Max == 2147483647

I32Min == (-I32Max) - 1

add_i32(a, b) ==
    IF b > 0 /\ a > I32Max - b THEN (a + I32Min) + (b + I32Min)
    ELSE IF b < 0 /\ a < I32Min - b THEN (a - I32Min) + (b - I32Min)
    ELSE a + b

sub_i32(a, b) ==
    IF b < 0 /\ a > I32Max + b THEN (a + I32Min) - (b - I32Min)
    ELSE IF b > 0 /\ a < I32Min + b THEN (a - I32Min) - (b + I32Min)
    ELSE a - b

\* whether a + b leaves the i32 range
add_overflows(a, b) == (b > 0 /\ a > I32Max - b) \/ (b < 0 /\ a < I32Min - b)

(***************************************************************************)
(* FormatDesc and its constructors.                                        *)
(***************************************************************************)
Nil == [tag |-> "Nil"]

Line == [tag |-> "Line"]

Text(s) == [tag |-> "Text", s |-> s]

Nest(j, x) == [tag |-> "Nest", j |-> j, x |-> x]

Cat(x, y) == [tag |-> "Cat", x |-> x, y |-> y]

Union(x, y) == [tag |-> "Union", x |-> x, y |-> y]

\* flatten_with that keeps the Nest around the flattened child
RECURSIVE flatten_with_keeps_nest(_, _)
flatten_with_keeps_nest(self, c) ==
    CASE self.tag = "Nil" -> Nil
      [] self.tag = "Line" -> Text(c)
      [] self.tag = "Text" -> Text(self.s)
      [] self.tag = "Nest" -> Nest(self.j, flatten_with_keeps_nest(self.x, c))
      [] self.tag = "Cat" ->
            Cat(flatten_with_keeps_nest(self.x, c), flatten_with_keeps_nest(self.y, c))
      [] self.tag = "Union" -> flatten_with_keeps_nest(self.x, c)

RECURSIVE flatten_with(_, _)
flatten_with(self, c) ==
    CASE self.tag = "Nil" -> Nil
      [] self.tag = "Line" -> Text(c)
      [] self.tag = "Text" -> Text(self.s)
      [] self.tag = "Nest" -> flatten_with(self.x, c)
      [] self.tag = "Cat" -> Cat(flatten_with(self.x, c), flatten_with(self.y, c))
      [] self.tag = "Union" -> flatten_with(self.x, c)

flatten(self) == flatten_with(self, " ")

(***************************************************************************)
(* ProcessedFormat: Nil is <<>>, Text(s, x) is <<PText(s)>> \o x,          *)
(* Line(i, x) is <<PLine(i)>> \o x.                                        *)
(***************************************************************************)
PNil == <<>>

PText(s) == [tag |-> "Text", s |-> s]

PLine(i) == [tag |-> "Line", i |-> i]

\* fits without the early return for w < 0
RECURSIVE fits_unchecked(_, _)
fits_unchecked(self, w) ==
    IF self = PNil \/ Head(self).tag = "Line" THEN TRUE
    ELSE w >= 0 /\ fits_unchecked(Tail(self), sub_i32(w, Len(Head(self).s)))

RECURSIVE fits(_, _)
fits(self, w) ==
    IF w < 0 THEN FALSE
    ELSE IF self = PNil \/ Head(self).tag = "Line" THEN TRUE
    ELSE fits(Tail(self), sub_i32(w, Len(Head(self).s)))

\* better that forgets the k columns already used
better_ignores_column(w, kk, x, y) == IF fits(x, w) THEN x ELSE y

better(w, kk, x, y) == IF fits(x, sub_i32(w, kk)) THEN x ELSE y

\* the magnitude of the indent instead of the clamp
indent_abs(i) == IF i < 0 THEN -i ELSE i

\* (*i).try_into().unwrap_or(0): usize from i32, 0 when negative
indent_usize(i) == IF i < 0 THEN 0 ELSE i

RECURSIVE repeat(_, _)
repeat(s, n) == IF n = 0 THEN "" ELSE s \o repeat(s, n - 1)

(***************************************************************************)
(* The combinators of lib.rs.                                              *)
(***************************************************************************)
nil == Nil

line == Line

text(s) == Text(s)

nest(i, x) == Nest(i, x)

cat(x, y) == Cat(x, y)

union(x, y) == Union(x, y)

bitand(self, rhs) == cat(self, rhs)

add(self, rhs) == bitand(bitand(self, text(" ")), rhs)

div(self, rhs) == bitand(bitand(self, line), rhs)

mul(self, rhs) == bitand(bitand(self, union(text(" "), line)), rhs)

group(x) == union(flatten(x), x)

group_with(c, x) == union(flatten_with(x, c), x)

\* bracket with the closing delimiter inside the nest
bracket_closer_nested(i, l, x, r) ==
    group(bitand(text(l), nest(i, div(bitand(line, x), text(r)))))

\* text(l) & nest(i, line() & x) / text(r): `/` binds tighter than `&`
bracket(i, l, x, r) == group(bitand(text(l), div(nest(i, bitand(line, x)), text(r))))

\* the closures handed to fold, by name: |lhs, rhs| lhs + rhs of spread
\* and |lhs, rhs| lhs / rhs of stack
call_op(op, lhs, rhs) ==
    CASE op = "add" -> add(lhs, rhs)
      [] op = "div" -> div(lhs, rhs)

\* xs.iter().map(Format::format).reduce(op).unwrap_or(nil())
fold(xs, op) ==
    LET acc[n \in 1 .. Len(xs)] ==
            IF n = 1 THEN xs[1] ELSE call_op(op, acc[n - 1], xs[n])
    IN  IF xs = <<>> THEN nil ELSE acc[Len(xs)]

spread(xs) == fold(xs, "add")

\* stack that joins with a space, as spread does
stack_spaced(xs) == fold(xs, "add")

stack(xs) == fold(xs, "div")

RECURSIVE fill(_)
\* fill with the alternatives of its Union the other way round
fill_breaks_first(xs) ==
    IF xs = <<>> THEN nil
    ELSE IF Len(xs) = 1 THEN xs[1]
    ELSE LET x == xs[1]
             y == xs[2]
             zz == SubSeq(xs, 3, Len(xs))
             z1 == <<flatten(y)>> \o zz
             z2 == <<y>> \o zz
         IN  union(div(x, fill(z2)), add(flatten(x), fill(z1)))

fill(xs) ==
    IF xs = <<>> THEN nil
    ELSE IF Len(xs) = 1 THEN xs[1]
    ELSE LET x == xs[1]
             y == xs[2]
             zz == SubSeq(xs, 3, Len(xs))
             z1 == <<flatten(y)>> \o zz
             z2 == <<y>> \o zz
         IN  union(add(flatten(x), fill(z1)), div(x, fill(z2)))

(***************************************************************************)
(* Format::pretty -> FormatDesc::pretty -> best -> be(w, 0, [(0, doc)]).   *)
(* self.format() clones the document: the resolution consumes the clone.   *)
(***************************************************************************)
Item(i, d) == [i |-> i, d |-> d]

format(self) == self

best_queue(self) == <<Item(0, self)>>

\* the column left behind by the previous resolution
stale_column == k

pretty_column == 0

Start ==
    /\ pc = "idle"
    /\ todo # <<>>
    /\ width' = Head(todo)
    /\ todo' = Tail(todo)
    /\ k' = pretty_column
    /\ z' = best_queue(format(doc))
    /\ frames' = <<>>
    /\ pc' = "call"
    /\ UNCHANGED <<doc, meta, ret, result, rest, out, outcol, rendered, decided,
                   history>>

(***************************************************************************)
(* be, one action per match arm.  A Text, Line or Union arm calls be again *)
(* before it can build its own value, and leaves a frame.                  *)
(***************************************************************************)
BeNone ==
    /\ pc = "call"
    /\ z = <<>>
    /\ ret' = PNil
    /\ pc' = "ret"
    /\ UNCHANGED <<doc, meta, width, k, z, frames, result, rest, out, outcol,
                   rendered, decided, todo, history>>

\* the Nil arm without the pop: the item stays at the front of the queue
BeNil_keeps_item ==
    /\ pc = "call"
    /\ z # <<>>
    /\ Head(z).d.tag = "Nil"
    /\ UNCHANGED vars

BeNil ==
    /\ pc = "call"
    /\ z # <<>>
    /\ Head(z).d.tag = "Nil"
    /\ z' = Tail(z)
    /\ UNCHANGED <<doc, meta, width, pc, k, frames, ret, result, rest, out,
                   outcol, rendered, decided, todo, history>>

BeCat ==
    /\ pc = "call"
    /\ z # <<>>
    /\ Head(z).d.tag = "Cat"
    /\ z' = <<Item(Head(z).i, Head(z).d.x), Item(Head(z).i, Head(z).d.y)>> \o Tail(z)
    /\ UNCHANGED <<doc, meta, width, pc, k, frames, ret, result, rest, out,
                   outcol, rendered, decided, todo, history>>

BeNest ==
    /\ pc = "call"
    /\ z # <<>>
    /\ Head(z).d.tag = "Nest"
    /\ z' = <<Item(add_i32(Head(z).i, Head(z).d.j), Head(z).d.x)>> \o Tail(z)
    /\ UNCHANGED <<doc, meta, width, pc, k, frames, ret, result, rest, out,
                   outcol, rendered, decided, todo, history>>

BeText ==
    /\ pc = "call"
    /\ z # <<>>
    /\ Head(z).d.tag = "Text"
    /\ frames' = Append(frames, [tag |-> "Text", s |-> Head(z).d.s])
    /\ k' = add_i32(Len(Head(z).d.s), k)
    /\ z' = Tail(z)
    /\ UNCHANGED <<doc, meta, width, pc, ret, result, rest, out, outcol,
                   rendered, decided, todo, history>>

BeLine ==
    /\ pc = "call"
    /\ z # <<>>
    /\ Head(z).d.tag = "Line"
    /\ frames' = Append(frames, [tag |-> "Line", i |-> Head(z).i])
    /\ k' = Head(z).i
    /\ z' = Tail(z)
    /\ UNCHANGED <<doc, meta, width, pc, ret, result, rest, out, outcol,
                   rendered, decided, todo, history>>

\* z1 gets x and is resolved first; z2, its clone with y, waits in the frame
BeUnion ==
    /\ pc = "call"
    /\ z # <<>>
    /\ Head(z).d.tag = "Union"
    /\ frames' = Append(frames, [tag |-> "Union1", k |-> k,
                                 z2 |-> <<Item(Head(z).i, Head(z).d.y)>> \o Tail(z)])
    /\ z' = <<Item(Head(z).i, Head(z).d.x)>> \o Tail(z)
    /\ UNCHANGED <<doc, meta, width, pc, k, ret, result, rest, out, outcol,
                   rendered, decided, todo, history>>

\* a build with overflow checks (a debug build) panics where the release
\* build wraps: `attempt to add with overflow` at i + j
BeNestPanics ==
    /\ pc = "call"
    /\ z # <<>>
    /\ Head(z).d.tag = "Nest"
    /\ add_overflows(Head(z).i, Head(z).d.j)
    /\ pc' = "panicked"
    /\ UNCHANGED <<doc, meta, width, k, z, frames, ret, result, rest, out,
                   outcol, rendered, decided, todo, history>>

\* and at slen as i32 + k
BeTextPanics ==
    /\ pc = "call"
    /\ z # <<>>
    /\ Head(z).d.tag = "Text"
    /\ add_overflows(Len(Head(z).d.s), k)
    /\ pc' = "panicked"
    /\ UNCHANGED <<doc, meta, width, k, z, frames, ret, result, rest, out,
                   outcol, rendered, decided, todo, history>>

Top == frames[Len(frames)]

Pop == SubSeq(frames, 1, Len(frames) - 1)

\* ProcessedFormat::Text(s, Box::new(<the callee's value>))
RetText ==
    /\ pc = "ret"
    /\ frames # <<>>
    /\ Top.tag = "Text"
    /\ ret' = <<PText(Top.s)>> \o ret
    /\ frames' = Pop
    /\ UNCHANGED <<doc, meta, width, pc, k, z, result, rest, out, outcol,
                   rendered, decided, todo, history>>

\* ProcessedFormat::Line(i, Box::new(<the callee's value>))
RetLine ==
    /\ pc = "ret"
    /\ frames # <<>>
    /\ Top.tag = "Line"
    /\ ret' = <<PLine(Top.i)>> \o ret
    /\ frames' = Pop
    /\ UNCHANGED <<doc, meta, width, pc, k, z, result, rest, out, outcol,
                   rendered, decided, todo, history>>

\* the second candidate resolved from the column the first one ended at
RetUnion1_runs_on ==
    /\ pc = "ret"
    /\ frames # <<>>
    /\ Top.tag = "Union1"
    /\ frames' = Append(Pop, [tag |-> "Union2", k |-> Top.k, x |-> ret])
    /\ z' = Top.z2
    /\ pc' = "call"
    /\ UNCHANGED <<doc, meta, width, k, ret, result, rest, out, outcol, rendered,
                   decided, todo, history>>

\* be(w, k, z1) has returned: better's second argument, be(w, k, z2), is next
RetUnion1 ==
    /\ pc = "ret"
    /\ frames # <<>>
    /\ Top.tag = "Union1"
    /\ frames' = Append(Pop, [tag |-> "Union2", k |-> Top.k, x |-> ret])
    /\ k' = Top.k
    /\ z' = Top.z2
    /\ pc' = "call"
    /\ UNCHANGED <<doc, meta, width, ret, result, rest, out, outcol, rendered,
                   decided, todo, history>>

\* both candidates are built: better(w, k, x, y)
RetUnion2 ==
    /\ pc = "ret"
    /\ frames # <<>>
    /\ Top.tag = "Union2"
    /\ ret' = better(width, Top.k, Top.x, ret)
    /\ decided' = decided + 1
    /\ frames' = Pop
    /\ UNCHANGED <<doc, meta, width, pc, k, z, result, rest, out, outcol,
                   rendered, todo, history>>

\* the outermost be returns: pretty hands the ProcessedFormat to its caller
RetPretty ==
    /\ pc = "ret"
    /\ frames = <<>>
    /\ result' = ret
    /\ rest' = ret
    /\ pc' = "fmt"
    /\ UNCHANGED <<doc, meta, width, k, z, frames, ret, out, outcol, rendered,
                   decided, todo, history>>

(***************************************************************************)
(* Display::fmt for ProcessedFormat, one cell per action.                  *)
(***************************************************************************)
\* a consumer that is handed the first cell as soon as be has met it
FmtText_streamed ==
    \/ /\ pc = "fmt"
       /\ rest # PNil
       /\ Head(rest).tag = "Text"
       /\ out' = out \o Head(rest).s
       /\ outcol' = outcol + Len(Head(rest).s)
       /\ rest' = Tail(rest)
       /\ rendered' = rendered + 1
       /\ UNCHANGED <<doc, meta, width, pc, k, z, frames, ret, result, decided,
                      todo, history>>
    \/ /\ pc = "call"
       /\ rendered = 0
       /\ frames # <<>>
       /\ frames[1].tag = "Text"
       /\ out' = frames[1].s
       /\ outcol' = Len(frames[1].s)
       /\ rendered' = 1
       /\ UNCHANGED <<doc, meta, width, pc, k, z, frames, ret, result, rest,
                      decided, todo, history>>

FmtText ==
    /\ pc = "fmt"
    /\ rest # PNil
    /\ Head(rest).tag = "Text"
    /\ out' = out \o Head(rest).s
    /\ outcol' = outcol + Len(Head(rest).s)
    /\ rest' = Tail(rest)
    /\ rendered' = rendered + 1
    /\ UNCHANGED <<doc, meta, width, pc, k, z, frames, ret, result, decided,
                   todo, history>>

FmtLine ==
    /\ pc = "fmt"
    /\ rest # PNil
    /\ Head(rest).tag = "Line"
    /\ out' = out \o "\n" \o repeat(" ", indent_usize(Head(rest).i))
    /\ outcol' = indent_usize(Head(rest).i)
    /\ rest' = Tail(rest)
    /\ rendered' = rendered + 1
    /\ UNCHANGED <<doc, meta, width, pc, k, z, frames, ret, result, decided,
                   todo, history>>

FmtNil ==
    /\ pc = "fmt"
    /\ rest = PNil
    /\ pc' = "shown"
    /\ history' = [history EXCEPT ![width] = @ \cup {<<result, out>>}]
    /\ UNCHANGED <<doc, meta, width, k, z, frames, ret, result, rest, out,
                   outcol, rendered, decided, todo>>

\* the ProcessedFormat and the String are dropped; the Document lives on
Drop ==
    /\ pc = "shown"
    /\ pc' = "idle"
    /\ ret' = PNil
    /\ result' = PNil
    /\ out' = ""
    /\ outcol' = 0
    /\ rendered' = 0
    /\ decided' = 0
    /\ UNCHANGED <<doc, meta, width, k, z, frames, rest, todo, history>>

(***************************************************************************)
(* The documents a caller can build.  union is pub(crate): a Union is only *)
(* ever built by group, group_with, bracket, fill or the `*` operator.     *)
(***************************************************************************)
Lits == {"a", "bb"}

Prefixes == {"", "bb"}

Indents == {-3, 0, 2}

Seqs(S, n) == UNION {[1 .. m -> S] : m \in 0 .. n}

LitDocs == {text(s) : s \in Lits}

\* bodies without a Union: the cells of their expanded form are known
Bodies ==
    {div(a, b) : a, b \in LitDocs}
        \cup {bitand(a, nest(j, bitand(line, b))) : a, b \in {text("a")}, j \in Indents}
        \cup {stack(<<text("a"), text("bb"), text("a")>>),
              spread(<<text("a"), text("bb")>>),
              text("bb"),
              nil,
              div(nest(2, div(text("a"), text("a"))), text("bb"))}

\* what may follow on the line of the group
Tails == {nil, text("a"), bitand(text("bb"), text("a")),
          bitand(line, text("bb")), bitand(text("a"), bitand(line, text("bb")))}

GroupInputs ==
    [kind : {"group"}, p : Prefixes, n : Indents, x : Bodies, t : Tails]

StackInputs ==
    [kind : {"stack"}, p : Prefixes, n : Indents,
     xs : Seqs(Lits, MaxItems) \ {<<>>}]

BracketInputs ==
    [kind : {"bracket"}, p : Prefixes, n : Indents, i : Indents,
     x : {spread(<<text("a"), text("b")>>), div(text("a"), text("bb")), text("a")}]

FillLits == {"aa", "bb", "cc", "d"}

\* up to MaxItems items, no item twice
FillSeqs ==
    {xs \in Seqs(FillLits, MaxItems) :
        \A a, b \in DOMAIN xs : a # b => xs[a] # xs[b]}

FillInputs == [kind : {"fill"}, p : Prefixes, n : {0, 2}, xs : FillSeqs]

\* documents of the public combinators, two levels deep
Level0 == {nil, line, text("a"), text("bb")}

Level1 ==
    Level0
        \cup {nest(j, x) : j \in Indents, x \in {line, text("a")}}
        \cup {bitand(x, y) : x, y \in Level0}
        \cup {mul(x, y) : x, y \in LitDocs}
        \cup {group(div(x, y)) : x, y \in LitDocs}
        \cup {group_with("", div(x, y)) : x, y \in {text("a")}}

Level2 ==
    Level1
        \cup {nest(j, x) : j \in {-3, 2}, x \in Level1}
        \cup {group(x) : x \in Level1}
        \cup {bitand(x, y) : x \in Level1, y \in {text("a"), group(div(text("a"), text("bb")))}}
        \cup {group(bitand(mul(x, y), bitand(line, text("bb")))) : x, y \in LitDocs}

RawInputs == [kind : {"raw"}, n : Level2]

FlatInputs == [kind : {"flat"}, n : Level2]

\* a caller that resolves one document several times, at several widths
RunWidths == {2, 3, 5}

RunDocs ==
    {group(div(x, y)) : x, y \in LitDocs}
        \cup {bitand(text("a"), group(div(text("a"), text("bb")))),
              fill(<<text("a"), text("bb"), text("a")>>),
              bracket(2, "[", text("a"), "]"),
              bitand(nil, mul(text("bb"), text("bb"))),
              nest(2, div(text("a"), text("bb")))}

RunInputs ==
    [kind : {"runs"}, n : RunDocs, plan : Seqs(RunWidths, MaxRuns) \ {<<>>}]

\* the arguments of a call of fits
Cells == {PText(""), PText("a"), PText("bb"), PLine(0), PLine(2)}

FitsInputs == [kind : {"fits"}, x : Seqs(Cells, MaxTokens), w : -2 .. MaxWidth]

\* documents with indents at the ends of the i32 range.  A Break of a
\* huge indent is only ever met in the expanded alternative of a group
\* whose flat form fits, so that no line of 2^31 spaces is written.
ExtremeNests ==
    {nest(j1, nest(j2, x)) :
        j1 \in {I32Max, I32Min, -3}, j2 \in {1, 2},
        x \in {text("a"), div(text("a"), text("bb")),
               group(div(text("a"), text("bb"))), bitand(nil, line)}}

ExtremeColumns ==
    {group(bitand(text("a"), nest(I32Max, bitand(line, text(s))))) : s \in Lits}

ExtremeInputs ==
    [kind : {"extreme"}, n : ExtremeNests, w : Widths]
        \cup [kind : {"extreme"}, n : ExtremeColumns, w : {MaxWidth - 1, MaxWidth}]

Inputs ==
    GroupInputs \cup StackInputs \cup BracketInputs \cup FillInputs
        \cup RawInputs \cup FlatInputs

Texts(xs) == [n \in 1 .. Len(xs) |-> text(xs[n])]

Build(m) ==
    CASE m.kind = "group" ->
            bitand(bitand(text(m.p), nest(m.n, group(m.x))), m.t)
      [] m.kind = "stack" -> bitand(text(m.p), nest(m.n, stack(Texts(m.xs))))
      [] m.kind = "bracket" ->
            bitand(text(m.p), nest(m.n, bracket(m.i, "[", m.x, "]")))
      [] m.kind = "fill" -> bitand(text(m.p), nest(m.n, fill(Texts(m.xs))))
      [] m.kind = "raw" -> m.n
      [] m.kind = "flat" -> flatten(m.n)
      [] m.kind = "runs" -> m.n
      [] m.kind = "fits" -> nil
      [] m.kind = "extreme" -> m.n

Idle ==
    /\ doc = Build(meta)
    /\ width = 0
    /\ pc = "idle"
    /\ k = 0
    /\ z = <<>>
    /\ frames = <<>>
    /\ ret = PNil
    /\ result = PNil
    /\ rest = PNil
    /\ out = ""
    /\ outcol = 0
    /\ rendered = 0
    /\ decided = 0
    /\ history = [w \in Widths |-> {}]

\* one document, resolved once at one width
Init ==
    /\ meta \in Inputs
    /\ todo \in [1 .. 1 -> Widths]
    /\ Idle

\* one document, resolved at the widths of a plan, one after the other
InitRuns ==
    /\ meta \in RunInputs
    /\ todo = meta.plan
    /\ Idle

\* one call of fits
InitFits ==
    /\ meta \in FitsInputs
    /\ todo = <<>>
    /\ Idle

\* one document with extreme indents, resolved once
InitExtreme ==
    /\ meta \in ExtremeInputs
    /\ todo = <<meta.w>>
    /\ Idle

FitsCall ==
    /\ pc = "idle"
    /\ meta.kind = "fits"
    /\ ret' = fits(meta.x, meta.w)
    /\ pc' = "fits"
    /\ UNCHANGED <<doc, meta, width, k, z, frames, result, rest, out, outcol,
                   rendered, decided, todo, history>>

Be == BeNone \/ BeNil \/ BeCat \/ BeNest \/ BeText \/ BeLine \/ BeUnion

Ret == RetText \/ RetLine \/ RetUnion1 \/ RetUnion2 \/ RetPretty

Fmt == FmtText \/ FmtLine \/ FmtNil

Next == Start \/ Be \/ Ret \/ Fmt \/ Drop

Spec == Init /\ [][Next]_vars

\* be is an ordinary call: once entered it keeps running
SpecFair == Init /\ [][Next]_vars /\ WF_vars(Next)

SpecRuns == InitRuns /\ [][Next]_vars

NextFits == FitsCall

\* either build: the sums wrap, or the overflow check panics
NextExtreme == Next \/ BeNestPanics \/ BeTextPanics

SpecExtreme == InitExtreme /\ [][NextExtreme]_vars

SpecFits == InitFits /\ [][NextFits]_vars

(***************************************************************************)
(* What the documentation promises, written without the resolver.          *)
(***************************************************************************)
Spaces(i) == repeat(" ", IF i < 0 THEN 0 ELSE i)

\* the one-line form: literals in order, a Break as the separator, an
\* Indent dropped, a Choice as its primary branch
RECURSIVE FlatString(_, _)
FlatString(d, c) ==
    CASE d.tag = "Nil" -> ""
      [] d.tag = "Line" -> c
      [] d.tag = "Text" -> d.s
      [] d.tag = "Nest" -> FlatString(d.x, c)
      [] d.tag = "Cat" -> FlatString(d.x, c) \o FlatString(d.y, c)
      [] d.tag = "Union" -> FlatString(d.x, c)

\* the form as given of a document without a Choice, at ambient indent i
RECURSIVE ExpandedString(_, _)
ExpandedString(i, d) ==
    CASE d.tag = "Nil" -> ""
      [] d.tag = "Line" -> "\n" \o Spaces(i)
      [] d.tag = "Text" -> d.s
      [] d.tag = "Nest" -> ExpandedString(i + d.j, d.x)
      [] d.tag = "Cat" -> ExpandedString(i, d.x) \o ExpandedString(i, d.y)

RECURSIVE HasLine(_)
HasLine(d) ==
    CASE d.tag = "Line" -> TRUE
      [] d.tag = "Nest" -> HasLine(d.x)
      [] d.tag \in {"Cat", "Union"} -> HasLine(d.x) \/ HasLine(d.y)
      [] OTHER -> FALSE

\* the length of the literals of a document without a Choice that come
\* before its first Break
RECURSIVE FirstLineLen(_)
FirstLineLen(d) ==
    CASE d.tag = "Text" -> Len(d.s)
      [] d.tag = "Nest" -> FirstLineLen(d.x)
      [] d.tag = "Cat" ->
            IF HasLine(d.x) THEN FirstLineLen(d.x)
            ELSE FirstLineLen(d.x) + FirstLineLen(d.y)
      [] OTHER -> 0

Shown(kind) == pc = "shown" /\ meta.kind = kind

\* the column at which the resolver reaches what follows the prefix
GroupColumn == Len(meta.p)

GroupFlatLen == Len(FlatString(meta.x, " "))

GroupFlatOut == meta.p \o FlatString(meta.x, " ") \o ExpandedString(0, meta.t)

GroupExpandedOut ==
    meta.p \o ExpandedString(meta.n, meta.x) \o ExpandedString(0, meta.t)

\* C1 as stated: group(x), reached at column k with flat length L, renders
\* flat when L <= width - k and expanded otherwise, whatever follows it on
\* the line.
C1_GroupFlatIffItFits ==
    Shown("group") =>
        out = IF GroupFlatLen <= width - GroupColumn
              THEN GroupFlatOut ELSE GroupExpandedOut

\* C1 amended: group(x), reached at column k with flat length L and
\* followed on its line by literals of total length T (up to the next Break
\* or the end), renders flat when L + T <= width - k and expanded otherwise.
C1_GroupFlatIffLineFits ==
    Shown("group") =>
        out = IF GroupFlatLen + FirstLineLen(meta.t) <= width - GroupColumn
              THEN GroupFlatOut ELSE GroupExpandedOut

\* C1 witness: a group with a Break in it whose flat form alone fits while
\* the line with the literals after it does not, rendered expanded.
C1_Witness ==
    /\ Shown("group")
    /\ HasLine(meta.x)
    /\ GroupFlatLen <= width - GroupColumn
    /\ GroupFlatLen + FirstLineLen(meta.t) > width - GroupColumn
    /\ out = GroupExpandedOut
    /\ out # GroupFlatOut

RECURSIVE Joined(_, _)
Joined(xs, sep) ==
    IF xs = <<>> THEN ""
    ELSE IF Len(xs) = 1 THEN xs[1]
    ELSE xs[1] \o sep \o Joined(Tail(xs), sep)

\* C5: stack(xs) renders as its items with a newline and the enclosing
\* indent between them, at every width.
C5_StackNeverCollapses ==
    Shown("stack") =>
        /\ out = meta.p \o Joined(meta.xs, "\n" \o Spaces(meta.n))
        /\ Cardinality({c \in 1 .. Len(result) : result[c].tag = "Line"})
               = Len(meta.xs) - 1

\* C5 witness: three items that would fit on one line, on three lines.
C5_Witness ==
    /\ Shown("stack")
    /\ Len(meta.xs) = 3
    /\ Len(meta.p \o Joined(meta.xs, " ")) <= width
    /\ meta.n = 2
    /\ out = meta.p \o meta.xs[1] \o "\n  " \o meta.xs[2] \o "\n  " \o meta.xs[3]

BracketFlat == "[" \o " " \o FlatString(meta.x, " ") \o " " \o "]"

BracketExpanded ==
    "[" \o "\n" \o Spaces(meta.n + meta.i) \o ExpandedString(meta.n + meta.i, meta.x)
        \o "\n" \o Spaces(meta.n) \o "]"

\* C6: bracket(i, l, x, r) renders as l, a space, the flat x, a space, r
\* when that fits in the remaining width, and otherwise as l, a newline and
\* ambient + i spaces, x, a newline and ambient spaces, r.
C6_BracketTwoRenderings ==
    Shown("bracket") =>
        out = meta.p \o (IF Len(BracketFlat) <= width - Len(meta.p)
                         THEN BracketFlat ELSE BracketExpanded)

\* C6 witness: the documented example at width 5.
C6_Witness ==
    /\ Shown("bracket")
    /\ meta = [kind |-> "bracket", p |-> "", n |-> 0, i |-> 2,
               x |-> spread(<<text("a"), text("b")>>)]
    /\ width = 5
    /\ out = "[\n  a b\n]"

\* greedy packing of the items from the n-th on, col columns being used
RECURSIVE Packed(_, _, _, _, _)
Packed(xs, n, col, w, ind) ==
    IF n > Len(xs) THEN ""
    ELSE IF col + 1 + Len(xs[n]) <= w
         THEN " " \o xs[n] \o Packed(xs, n + 1, col + 1 + Len(xs[n]), w, ind)
         ELSE "\n" \o Spaces(ind) \o xs[n]
                  \o Packed(xs, n + 1, ind + Len(xs[n]), w, ind)

\* C7: fill puts each item after the first on the current line, after one
\* space, exactly when column + 1 + its length <= width, and on a new line
\* otherwise; fill of no item is empty and fill of one item is the item.
C7_FillGreedy ==
    Shown("fill") =>
        out = IF meta.xs = <<>> THEN meta.p
              ELSE meta.p \o meta.xs[1]
                       \o Packed(meta.xs, 2, Len(meta.p) + Len(meta.xs[1]),
                                 width, meta.n)

\* C7 witness: the documented example at width 6.
C7_Witness ==
    /\ Shown("fill")
    /\ meta = [kind |-> "fill", p |-> "", n |-> 0, xs |-> <<"aa", "bb", "cc">>]
    /\ width = 6
    /\ out = "aa bb\ncc"

\* C2: resolving a document at a width gives the same cells and the same
\* text every time, whatever was resolved in between, and leaves the
\* document as it was.
C2_SameResultEveryTime ==
    /\ doc = Build(meta)
    /\ \A w \in Widths : Cardinality(history[w]) <= 1

\* C2 witness: width 3 resolved, then width 2, then width 3 again, with
\* one result for width 3 and another for width 2.
C2_Witness ==
    /\ pc = "shown"
    /\ todo = <<>>
    /\ Len(meta.plan) = 3
    /\ meta.plan[1] = 3 /\ meta.plan[2] = 2 /\ meta.plan[3] = 3
    /\ Cardinality(history[3]) = 1
    /\ history[2] # history[3]

\* C3: every call of be returns: from the queue [(0, root)] the resolver
\* reaches the empty queue with no call pending and hands over its cells.
C3_BeTerminates ==
    (pc = "call") ~> (pc = "fmt" /\ z = <<>> /\ frames = <<>> /\ rest = result)

\* C3 witness: be has returned after resolving both branches of more than
\* one Choice.
C3_Witness == pc = "fmt" /\ rendered = 0 /\ decided > 1 /\ z = <<>> /\ frames = <<>>

\* the lengths of the literals before the first Break
RECURSIVE FirstLineSum(_)
FirstLineSum(x) ==
    IF x = <<>> \/ Head(x).tag = "Line" THEN 0
    ELSE Len(Head(x).s) + FirstLineSum(Tail(x))

\* C4: fits(x, w) is false when w < 0 and otherwise says whether the
\* literals before the first Break of x are at most w long in total.
C4_FitsFirstLine ==
    pc = "fits" => ret = (meta.w >= 0 /\ FirstLineSum(meta.x) <= meta.w)

\* C4 witness: a first line that fits, followed by a Break and a literal
\* that would not.
C4_Witness ==
    /\ pc = "fits"
    /\ meta.x = <<PText("a"), PLine(0), PText("bb")>>
    /\ meta.w = 1
    /\ ret = TRUE

RECURSIVE CellsString(_)
CellsString(x) ==
    IF x = <<>> THEN ""
    ELSE (IF Head(x).tag = "Text" THEN Head(x).s
          ELSE "\n" \o Spaces(Head(x).i)) \o CellsString(Tail(x))

\* C8: a Break of indent i is written as a newline and i spaces, none when
\* i is negative, and the cells after it are written as usual.
C8_NegativeIndentClamped ==
    /\ pc \in {"fmt", "shown"} =>
           /\ out = CellsString(SubSeq(result, 1, rendered))
           /\ rest = SubSeq(result, rendered + 1, Len(result))
    /\ pc = "shown" => rendered = Len(result)

\* C8 witness: a Break of negative indent written, and a literal after it.
C8_Witness ==
    /\ pc = "shown"
    /\ \E c \in 1 .. Len(result) - 1 :
           /\ result[c].tag = "Line"
           /\ result[c].i < 0
           /\ result[c + 1].tag = "Text"
           /\ result[c + 1].s # ""

\* the outermost call of be has met a Text or a Line: the first cell is
\* known and all that be still does belongs to its continuation
FirstCellKnown == frames # <<>> /\ frames[1].tag \in {"Text", "Line"}

\* C9 as stated: the continuation of the first cell is not resolved before
\* the consumer has taken that cell, so no Choice after it is decided
\* before then.
C9_ContinuationIsLazy == (FirstCellKnown /\ decided > 0) => rendered > 0

\* C9 amended: the cells are built eagerly: the consumer gets the first
\* cell only after be has emptied its queue and returned from every call,
\* every Choice decided.
C9_ContinuationIsEager ==
    /\ rendered > 0 => pc \in {"fmt", "shown"}
    /\ pc \in {"fmt", "shown"} => z = <<>> /\ frames = <<>> /\ ret = result
    /\ pc \in {"call", "ret"} => rendered = 0 /\ out = ""

\* C9 witness: the first cell reaches the consumer after two Choices that
\* follow it in the document were decided.
C9_Witness ==
    /\ pc = "fmt"
    /\ rendered = 1
    /\ meta.kind = "fill"
    /\ meta.p # ""
    /\ result[1] = PText(meta.p)
    /\ out = meta.p
    /\ decided > 1

RECURSIVE OnlyLiterals(_)
OnlyLiterals(d) ==
    CASE d.tag \in {"Nil", "Text"} -> TRUE
      [] d.tag = "Cat" -> OnlyLiterals(d.x) /\ OnlyLiterals(d.y)
      [] OTHER -> FALSE

\* C10: flatten(n) holds no Break, Indent or Choice and flattens to itself;
\* at every width it renders as one line, the literals of n in order with
\* each Break as a space, each Indent dropped and each Choice as its
\* primary branch.
C10_FlattenOneLine ==
    meta.kind = "flat" =>
        /\ OnlyLiterals(doc)
        /\ flatten(doc) = doc
        /\ pc = "shown" =>
               /\ out = FlatString(meta.n, " ")
               /\ \A c \in 1 .. Len(result) : result[c].tag = "Text"

\* C10 witness: an indented group with a Break, flattened and rendered on
\* one line at a width too small for it.
C10_Witness ==
    /\ Shown("flat")
    /\ meta.n = nest(2, group(div(text("a"), text("bb"))))
    /\ width = 2
    /\ out = "a bb"

\* resolve as the documentation gives it: the queue is taken from the
\* front, and a Choice is the resolution with its first alternative in
\* front of the queue when the first line of that fits in w - k, and the
\* resolution with its second alternative otherwise
RECURSIVE Resolve(_, _, _)
Resolve(w, col, q) ==
    IF q = <<>> THEN <<>>
    ELSE LET i == Head(q).i
             d == Head(q).d
             zz == Tail(q)
         IN  CASE d.tag = "Nil" -> Resolve(w, col, zz)
               [] d.tag = "Cat" -> Resolve(w, col, <<Item(i, d.x), Item(i, d.y)>> \o zz)
               [] d.tag = "Nest" -> Resolve(w, col, <<Item(i + d.j, d.x)>> \o zz)
               [] d.tag = "Text" -> <<PText(d.s)>> \o Resolve(w, col + Len(d.s), zz)
               [] d.tag = "Line" -> <<PLine(i)>> \o Resolve(w, i, zz)
               [] d.tag = "Union" ->
                     LET first == Resolve(w, col, <<Item(i, d.x)>> \o zz)
                     IN  IF FirstLineSum(first) <= w - col THEN first
                         ELSE Resolve(w, col, <<Item(i, d.y)>> \o zz)

\* C11: a Choice(x, y) met with indent i, column k and queue z resolves to
\* the resolution of (i, x) :: z from column k when the first line of that
\* fits in w - k and to the resolution of (i, y) :: z from column k
\* otherwise, whether or not that one fits; nothing later changes it.
C11_ChoiceFirstFitWins ==
    pc \in {"fmt", "shown"} => result = Resolve(width, 0, <<Item(0, doc)>>)

\* C11 witness: a group whose flat form does not fit, resolved to its
\* expanded form although the first line of that does not fit either.
C11_Witness ==
    /\ Shown("group")
    /\ HasLine(meta.x)
    /\ out = GroupExpandedOut
    /\ out # GroupFlatOut
    /\ width >= 0
    /\ FirstLineSum(result) > width

\* the characters Display::fmt writes on the last line of the cells that
\* the pending invocations of be have met, in order
RECURSIVE WrittenColumn(_)
WrittenColumn(fs) ==
    IF fs = <<>> THEN 0
    ELSE LET f == fs[Len(fs)]
             before == SubSeq(fs, 1, Len(fs) - 1)
         IN  CASE f.tag = "Text" -> WrittenColumn(before) + Len(f.s)
               [] f.tag = "Line" -> indent_usize(f.i)
               [] OTHER -> WrittenColumn(before)

\* C13: whenever be is entered, its column k is the number of characters
\* written on the current output line by the cells met so far, whatever
\* the indents are.
C13_ColumnIsWrittenColumn == pc = "call" => k = WrittenColumn(frames)

\* C12: resolution never fails: at a Nest the sum i + j and at a Text the
\* sum slen + k stay in the i32 range, whatever the indents are.
C12_NoOverflow ==
    /\ pc # "panicked"
    /\ (pc = "call" /\ z # <<>> /\ Head(z).d.tag = "Nest") =>
           ~add_overflows(Head(z).i, Head(z).d.j)
    /\ (pc = "call" /\ z # <<>> /\ Head(z).d.tag = "Text") =>
           ~add_overflows(Len(Head(z).d.s), k)

====
